---- MODULE Spec2Model ----
(***************************************************************************)
(* A model of the token balance aggregation of mcp-crypto-wallet-tracker   *)
(* (src/unnamed/part_000, the wallet tracker that main.go calls):          *)
(* tokenTransaction's field resolution, the loop of                        *)
(* summarizeTokenBalances, the map iteration that builds the result, the   *)
(* sort by display name and formatTokenBalance.                            *)
(*                                                                         *)
(* A Go string is a sequence of one-character strings (<<"a", "B">>), so   *)
(* that length, slicing, strings.ToLower, byte-wise comparison and the     *)
(* parsing of decimal text are computed, not assumed.  A *big.Int is       *)
(* Nil (<<>>) or Ptr(n) (<<n>>) with n an integer of unbounded width.      *)
(***************************************************************************)
EXTENDS Integers, Sequences, FiniteSets, TLC

\* The longest transfer list the model feeds to summarizeTokenBalances.
MaxLen == 3

----------------------------------------------------------------------------
(* Strings *)

Digits == <<"0", "1", "2", "3", "4", "5", "6", "7", "8", "9">>

IsDigit(c) == \E d \in 1..10 : Digits[d] = c

DigitVal(c) == (CHOOSE d \in 1..10 : Digits[d] = c) - 1

\* The byte value of a character (ASCII), as Go compares strings.
CharCode(c) ==
    CASE c = " " -> 32
      [] c = "+" -> 43
      [] c = "-" -> 45
      [] c = "." -> 46
      [] IsDigit(c) -> 48 + DigitVal(c)
      [] c = "A" -> 65
      [] c = "B" -> 66
      [] c = "C" -> 67
      [] c = "D" -> 68
      [] c = "S" -> 83
      [] c = "X" -> 88
      [] c = "a" -> 97
      [] c = "b" -> 98
      [] c = "c" -> 99
      [] c = "d" -> 100
      [] c = "s" -> 115
      [] c = "t" -> 116
      [] c = "u" -> 117
      [] c = "w" -> 119
      [] c = "x" -> 120
      [] c = "y" -> 121
      [] c = "z" -> 122

ToLowerChar(c) ==
    CASE c = "A" -> "a"
      [] c = "B" -> "b"
      [] c = "C" -> "c"
      [] c = "D" -> "d"
      [] c = "S" -> "s"
      [] c = "X" -> "x"
      [] OTHER -> c

\* strings.ToLower
ToLower(s) == [k \in 1..Len(s) |-> ToLowerChar(s[k])]

\* Go's < on strings: byte-wise, a proper prefix is smaller.
RECURSIVE StrLess(_, _)
StrLess(a, b) ==
    IF b = <<>> THEN FALSE
    ELSE IF a = <<>> THEN TRUE
    ELSE IF CharCode(Head(a)) # CharCode(Head(b))
         THEN CharCode(Head(a)) < CharCode(Head(b))
    ELSE StrLess(Tail(a), Tail(b))

IsSpace(c) == c = " "

RECURSIVE TrimLeftSpace(_)
TrimLeftSpace(s) ==
    IF s # <<>> /\ IsSpace(Head(s)) THEN TrimLeftSpace(Tail(s)) ELSE s

RECURSIVE TrimRightSpace(_)
TrimRightSpace(s) ==
    IF s # <<>> /\ IsSpace(s[Len(s)])
    THEN TrimRightSpace(SubSeq(s, 1, Len(s) - 1))
    ELSE s

\* strings.TrimSpace
TrimSpace(s) == TrimRightSpace(TrimLeftSpace(s))

\* strings.TrimRight(s, "0")
RECURSIVE TrimRightZeros(_)
TrimRightZeros(s) ==
    IF s # <<>> /\ s[Len(s)] = "0"
    THEN TrimRightZeros(SubSeq(s, 1, Len(s) - 1))
    ELSE s

\* strings.Repeat("0", n)
Zeros(n) == [k \in 1..n |-> "0"]

\* The decimal digits of a natural number: (*big.Int).String of a magnitude.
RECURSIVE NatString(_)
NatString(n) ==
    IF n < 10 THEN <<Digits[n + 1]>>
    ELSE NatString(n \div 10) \o <<Digits[(n % 10) + 1]>>

----------------------------------------------------------------------------
(* Pointers to integers *)

Nil == <<>>

Ptr(n) == <<n>>

Deref(p) == p[1]

\* The value of a non-empty run of decimal digits.
RECURSIVE DigitsValue(_)
DigitsValue(s) ==
    IF s = <<>> THEN 0
    ELSE 10 * DigitsValue(SubSeq(s, 1, Len(s) - 1)) + DigitVal(s[Len(s)])

\* The scan shared by (*big.Int).SetString(raw, 10) and strconv.Atoi: an
\* optional sign, then at least one digit, then the end of the text.  Both
\* return Nil (ok = false, err # nil) for anything else.
ScanDecimal(raw) ==
    LET signed == raw # <<>> /\ Head(raw) \in {"+", "-"}
        body   == IF signed THEN Tail(raw) ELSE raw
    IN  IF body = <<>> \/ \E k \in 1..Len(body) : ~IsDigit(body[k])
        THEN Nil
        ELSE IF signed /\ Head(raw) = "-"
             THEN Ptr(0 - DigitsValue(body))
             ELSE Ptr(DigitsValue(body))

\* new(big.Int).SetString(raw, 10)
SetString(raw) == ScanDecimal(raw)

\* strconv.Atoi(raw); the texts of the model are too short to leave the
\* range of int, so the range error is never taken.
Atoi(raw) == ScanDecimal(raw)

----------------------------------------------------------------------------
(* tokenTransaction *)

\* firstNonEmpty with the values compared to "" as they are.
RECURSIVE firstNonEmptyNoTrim(_)
firstNonEmptyNoTrim(values) ==
    IF values = <<>> THEN <<>>
    ELSE IF Head(values) # <<>> THEN Head(values)
    ELSE firstNonEmptyNoTrim(Tail(values))

\* firstNonEmpty(values...)
RECURSIVE firstNonEmpty(_)
firstNonEmpty(values) ==
    IF values = <<>> THEN <<>>
    ELSE IF TrimSpace(Head(values)) # <<>> THEN Head(values)
    ELSE firstNonEmpty(Tail(values))

displaySymbol(t) ==
    IF t.TokenSymbol # <<>> THEN t.TokenSymbol
    ELSE IF t.TokenSymbolAlt # <<>> THEN t.TokenSymbolAlt
    ELSE <<>>

\* displayName with the symbol looked at before the second name field.
displayNameSymbolFirst(t) ==
    IF t.TokenName # <<>> THEN t.TokenName
    ELSE IF displaySymbol(t) # <<>> THEN displaySymbol(t)
    ELSE IF t.TokenNameAlt # <<>> THEN t.TokenNameAlt
    ELSE t.ContractAddress

displayName(t) ==
    IF t.TokenName # <<>> THEN t.TokenName
    ELSE IF t.TokenNameAlt # <<>> THEN t.TokenNameAlt
    ELSE IF displaySymbol(t) # <<>> THEN displaySymbol(t)
    ELSE t.ContractAddress

\* decimals with the other alias tried when the chosen text does not parse.
decimalsTriesAlternate(t) ==
    LET raw == firstNonEmpty(<<t.TokenDecimal, t.TokenDecimalAlt>>)
    IN  IF raw # <<>> /\ Atoi(raw) # Nil THEN Deref(Atoi(raw))
        ELSE IF Atoi(t.TokenDecimalAlt) # Nil THEN Deref(Atoi(t.TokenDecimalAlt))
        ELSE 0

decimals(t) ==
    LET raw == firstNonEmpty(<<t.TokenDecimal, t.TokenDecimalAlt>>)
    IN  IF raw # <<>> /\ Atoi(raw) # Nil THEN Deref(Atoi(raw)) ELSE 0

\* quantity with the other alias tried when the chosen text does not parse.
quantityTriesAlternate(t) ==
    LET raw == firstNonEmpty(<<t.TokenQuantity, t.TokenQuantityAlt>>)
    IN  IF raw = <<>> THEN Nil
        ELSE IF SetString(raw) # Nil THEN SetString(raw)
        ELSE IF TrimSpace(t.TokenQuantityAlt) # <<>> THEN SetString(t.TokenQuantityAlt)
        ELSE Nil

quantity(t) ==
    LET raw == firstNonEmpty(<<t.TokenQuantity, t.TokenQuantityAlt>>)
    IN  IF raw = <<>> THEN Nil ELSE SetString(raw)

----------------------------------------------------------------------------
(* formatTokenBalance *)

\* formatTokenBalance with the fraction printed without its leading zeros.
formatTokenBalanceNoPadding(balance, decs) ==
    IF balance = Nil THEN <<"0">>
    ELSE
      LET sign  == IF Deref(balance) < 0 THEN <<"-">> ELSE <<>>
          value == IF Deref(balance) < 0 THEN 0 - Deref(balance) ELSE Deref(balance)
          str   == NatString(value)
          split == IF Len(str) > decs THEN Len(str) - decs ELSE 0
          intPart  == IF split = 0 THEN <<"0">> ELSE SubSeq(str, 1, split)
          fracPart == TrimRightZeros(SubSeq(str, split + 1, Len(str)))
      IN  IF decs <= 0 THEN sign \o str
          ELSE IF fracPart = <<>> THEN sign \o intPart
          ELSE sign \o intPart \o <<".">> \o fracPart

\* formatTokenBalance with the trailing zeros of the fraction kept.
formatTokenBalanceKeepsZeros(balance, decs) ==
    IF balance = Nil THEN <<"0">>
    ELSE
      LET sign  == IF Deref(balance) < 0 THEN <<"-">> ELSE <<>>
          value == IF Deref(balance) < 0 THEN 0 - Deref(balance) ELSE Deref(balance)
          str0  == NatString(value)
          str   == IF Len(str0) <= decs
                   THEN Zeros(decs - Len(str0) + 1) \o str0
                   ELSE str0
          split == Len(str) - decs
          intPart0 == SubSeq(str, 1, split)
          intPart  == IF intPart0 = <<>> THEN <<"0">> ELSE intPart0
          fracPart == SubSeq(str, split + 1, Len(str))
      IN  IF decs <= 0 THEN sign \o str0
          ELSE IF fracPart = <<>> THEN sign \o intPart
          ELSE sign \o intPart \o <<".">> \o fracPart

\* formatTokenBalance without the test for an empty fraction.
formatTokenBalanceNoFracCheck(balance, decs) ==
    IF balance = Nil THEN <<"0">>
    ELSE
      LET sign  == IF Deref(balance) < 0 THEN <<"-">> ELSE <<>>
          value == IF Deref(balance) < 0 THEN 0 - Deref(balance) ELSE Deref(balance)
          str0  == NatString(value)
          str   == IF Len(str0) <= decs
                   THEN Zeros(decs - Len(str0) + 1) \o str0
                   ELSE str0
          split == Len(str) - decs
          intPart0 == SubSeq(str, 1, split)
          intPart  == IF intPart0 = <<>> THEN <<"0">> ELSE intPart0
          fracPart == TrimRightZeros(SubSeq(str, split + 1, Len(str)))
      IN  IF decs <= 0 THEN sign \o str0
          ELSE sign \o intPart \o <<".">> \o fracPart

formatTokenBalance(balance, decs) ==
    IF balance = Nil THEN <<"0">>
    ELSE
      LET sign  == IF Deref(balance) < 0 THEN <<"-">> ELSE <<>>
          value == IF Deref(balance) < 0 THEN 0 - Deref(balance) ELSE Deref(balance)
          str0  == NatString(value)
          str   == IF Len(str0) <= decs
                   THEN Zeros(decs - Len(str0) + 1) \o str0
                   ELSE str0
          split == Len(str) - decs
          intPart0 == SubSeq(str, 1, split)
          intPart  == IF intPart0 = <<>> THEN <<"0">> ELSE intPart0
          fracPart == TrimRightZeros(SubSeq(str, split + 1, Len(str)))
      IN  IF decs <= 0 THEN sign \o str0
          ELSE IF fracPart = <<>> THEN sign \o intPart
          ELSE sign \o intPart \o <<".">> \o fracPart

----------------------------------------------------------------------------
(* The inputs *)

Tx(contract, name, nameAlt, symbol, symbolAlt, dec, decAlt, value, valueAlt, from, to) ==
    [ContractAddress |-> contract,
     TokenName |-> name, TokenNameAlt |-> nameAlt,
     TokenSymbol |-> symbol, TokenSymbolAlt |-> symbolAlt,
     TokenDecimal |-> dec, TokenDecimalAlt |-> decAlt,
     TokenQuantity |-> value, TokenQuantityAlt |-> valueAlt,
     From |-> from, To |-> to]

\* The target addresses: one that strings.ToLower changes, one it does not.
Wallets == {<<"A">>, <<"b">>}

\* The transfer records the lists are drawn from.  A JSON field that is
\* absent decodes to the empty string.
InB   == Tx(<<"x">>, <<"B">>, <<>>, <<"s">>, <<>>, <<"1">>, <<>>,
            <<"1", "2">>, <<>>, <<"B">>, <<"a">>)
OutC  == Tx(<<"x">>, <<>>, <<"c">>, <<>>, <<"t">>, <<>>, <<"2">>,
            <<"1", "2">>, <<>>, <<"A">>, <<"b">>)
SelfA == Tx(<<"y">>, <<"a">>, <<>>, <<>>, <<>>, <<>>, <<>>,
            <<"3">>, <<>>, <<"a">>, <<"A">>)
NoQty == Tx(<<"x">>, <<"z">>, <<>>, <<"w">>, <<>>, <<"3">>, <<>>,
            <<>>, <<>>, <<"b">>, <<"a">>)
BadQty == Tx(<<"y">>, <<"d">>, <<>>, <<>>, <<>>, <<"1">>, <<>>,
            <<"5", "x">>, <<"7">>, <<"b">>, <<"A">>)
AltQty == Tx(<<"y">>, <<"b">>, <<>>, <<"u">>, <<>>, <<"x">>, <<>>,
            <<" ">>, <<"7">>, <<"b">>, <<"A">>)
NoName == Tx(<<>>, <<>>, <<>>, <<>>, <<>>, <<>>, <<>>,
            <<"2">>, <<>>, <<"b">>, <<"a">>)
NegQty == Tx(<<"X">>, <<>>, <<>>, <<"S">>, <<>>, <<"1">>, <<>>,
            <<"-", "4">>, <<>>, <<"B">>, <<"a">>)
Other == Tx(<<"y">>, <<"D">>, <<>>, <<>>, <<>>, <<>>, <<>>,
            <<"9">>, <<>>, <<"c">>, <<"c">>)

TxPool == {InB, OutC, SelfA, NoQty, BadQty, AltQty, NoName, NegQty, Other}

TxLists == UNION {[1..n -> TxPool] : n \in 0..MaxLen}

----------------------------------------------------------------------------
(* summarizeTokenBalances *)

VARIABLES
    walletAddress,  \* the walletAddress argument
    txs,            \* the txs argument
    pc,             \* where the call is: start, loop, range, done
    wallet,         \* the local wallet (the lower-cased target)
    i,              \* the index of the record the range loop handles next
    aggregates,     \* the map aggregates: contract address -> tokenAggregate
    logs,           \* the contract addresses log.Printf has reported as skipped
    pending,        \* the keys the range over the map has yet to visit
    result          \* the slice result

\* One record put through the field resolution and one turn of the loop.
VARIABLES
    recPc,          \* idle, start, resolved, done
    recTx,          \* the tokenTransaction
    recFields,      \* what displayName, displaySymbol, decimals, quantity return
    recState        \* the map and the log after the loop body has handled recTx

\* A call of GetWalletTokens.
VARIABLES
    gwPc,           \* idle, start, fetching, done
    gwAddress,      \* the walletAddress argument
    gwRequests,     \* the requests sent to the API
    gwReply,        \* the reply of the API
    gwResponse,     \* the *WalletResponse returned
    gwErr           \* the error returned

\* A call of formatTokenBalance.
VARIABLES
    fmtPc,          \* idle, start, done
    fmtBalance,     \* the balance argument
    fmtDecimals,    \* the decimals argument
    fmtText         \* the string returned

\* Calls of summarizeTokenBalances running at the same time, one a goroutine.
VARIABLES
    cArgs,          \* the arguments of each call: walletAddress and txs
    cPc,            \* where each call is: start, loop, range, done
    cWallet,        \* the local wallet of each call
    cI,             \* the index of the record each call handles next
    cAggs,          \* the maps allocated by make, by the call that made them
    cPending,       \* the keys the range over the map of each call has yet to visit
    cResult,        \* the slice result of each call
    cLogs           \* what the standard logger has written, for all calls

\* A run of main.
VARIABLES
    mnEnv,          \* ETHERSCAN_API_KEY in the environment, Nil when unset
    mnPc,           \* start, tracker, register, serve, running, exited
    mnTracker,      \* the *WalletTracker, Nil or one holding its apiKey
    mnTools,        \* the names of the tools registered with the server
    mnServing       \* whether server.Serve has started the transport

\* A request for a wallet, through walletHandler or through the tool.
VARIABLES
    hdCaller,       \* walletHandler or the wallet_tracker tool
    hdAddress,      \* the address asked for
    hdPc,           \* idle, start, calling, done
    hdBranch,       \* the branch of the caller that wrote the answer
    hdAnswer        \* the answer: an HTTP status and body, or a tool response

\* A call of formatWalletResponse.
VARIABLES
    fwPc,           \* idle, start, done
    fwResp,         \* the *WalletResponse argument
    fwText          \* the string returned

sumVars == <<walletAddress, txs, pc, wallet, i, aggregates, logs, pending, result>>

recVars == <<recPc, recTx, recFields, recState>>

gwVars == <<gwPc, gwAddress, gwRequests, gwReply, gwResponse, gwErr>>

fmtVars == <<fmtPc, fmtBalance, fmtDecimals, fmtText>>

concVars == <<cArgs, cPc, cWallet, cI, cAggs, cPending, cResult, cLogs>>

mainVars == <<mnEnv, mnPc, mnTracker, mnTools, mnServing>>

hdVars == <<hdCaller, hdAddress, hdPc, hdBranch, hdAnswer>>

fwVars == <<fwPc, fwResp, fwText>>

vars == <<sumVars, recVars, gwVars, fmtVars, concVars, mainVars, hdVars, fwVars>>

\* No call of summarizeTokenBalances is under way.
SumIdle ==
    /\ walletAddress = <<>> /\ txs = <<>> /\ pc = "idle" /\ wallet = <<>> /\ i = 0
    /\ aggregates = <<>> /\ logs = <<>> /\ pending = {} /\ result = <<>>

RecIdle == recPc = "idle" /\ recTx = <<>> /\ recFields = <<>> /\ recState = <<>>

GwIdle ==
    /\ gwPc = "idle" /\ gwAddress = <<>> /\ gwRequests = 0
    /\ gwReply = <<>> /\ gwResponse = <<>> /\ gwErr = <<>>

ConcIdle ==
    /\ cArgs = <<>> /\ cPc = <<>> /\ cWallet = <<>> /\ cI = <<>> /\ cAggs = <<>>
    /\ cPending = <<>> /\ cResult = <<>> /\ cLogs = <<>>

MainIdle ==
    /\ mnEnv = <<>> /\ mnPc = "idle" /\ mnTracker = <<>> /\ mnTools = {}
    /\ mnServing = FALSE

HdIdle ==
    /\ hdCaller = "" /\ hdAddress = <<>> /\ hdPc = "idle" /\ hdBranch = ""
    /\ hdAnswer = <<>>

FwIdle == fwPc = "idle" /\ fwResp = <<>> /\ fwText = <<>>

FmtIdle == fmtPc = "idle" /\ fmtBalance = <<>> /\ fmtDecimals = 0 /\ fmtText = <<>>

\* WalletKey without the lower-casing of the target.
WalletKeyRaw(address) == address

\* wallet := strings.ToLower(walletAddress)
WalletKey(address) == ToLower(address)

\* aggregates[key] = agg
Put(aggs, key, agg) ==
    [c \in DOMAIN aggs \cup {key} |-> IF c = key THEN agg ELSE aggs[c]]

\* The aggregate made on the first sight of a contract.
NewAggregate(tx) ==
    [address  |-> tx.ContractAddress,
     name     |-> displayName(tx),
     symbol   |-> displaySymbol(tx),
     decimals |-> decimals(tx),
     balance  |-> 0]

\* Move with the second case adding like the first.
MoveAddsBoth(agg, w, tx, qty) ==
    LET to   == ToLower(tx.To)
        from == ToLower(tx.From)
    IN  IF to = w THEN [agg EXCEPT !.balance = @ + qty]
        ELSE IF from = w THEN [agg EXCEPT !.balance = @ + qty]
        ELSE agg

\* The switch on to and from.
Move(agg, w, tx, qty) ==
    LET to   == ToLower(tx.To)
        from == ToLower(tx.From)
    IN  IF to = w THEN [agg EXCEPT !.balance = @ + qty]
        ELSE IF from = w THEN [agg EXCEPT !.balance = @ - qty]
        ELSE agg

\* LoopBody with the aggregate looked up and created before the quantity
\* is tested.
LoopBodyCreatesFirst(st, w, tx) ==
    LET qty == quantity(tx)
        key == tx.ContractAddress
        agg == IF key \in DOMAIN st.aggregates
               THEN st.aggregates[key]
               ELSE NewAggregate(tx)
    IN  IF qty = Nil
        THEN [st EXCEPT !.aggregates = Put(@, key, agg),
                        !.logs = Append(@, key)]
        ELSE [st EXCEPT !.aggregates = Put(@, key, Move(agg, w, tx, Deref(qty)))]

\* LoopBody with a missing quantity taken for zero.
LoopBodyZeroQuantity(st, w, tx) ==
    LET qty == IF quantity(tx) = Nil THEN Ptr(0) ELSE quantity(tx)
        key == tx.ContractAddress
        agg == IF key \in DOMAIN st.aggregates
               THEN st.aggregates[key]
               ELSE NewAggregate(tx)
    IN  [st EXCEPT !.aggregates = Put(@, key, Move(agg, w, tx, Deref(qty)))]

\* LoopBody with the name, symbol and decimals taken from every record.
LoopBodyOverwrites(st, w, tx) ==
    LET qty == quantity(tx)
        key == tx.ContractAddress
    IN  IF qty = Nil
        THEN [st EXCEPT !.logs = Append(@, key)]
        ELSE LET agg == [NewAggregate(tx) EXCEPT
                            !.balance = IF key \in DOMAIN st.aggregates
                                        THEN st.aggregates[key].balance
                                        ELSE 0]
             IN  [st EXCEPT !.aggregates = Put(@, key, Move(agg, w, tx, Deref(qty)))]

\* LoopBody with the map keyed by the lower-cased contract address.
LoopBodyFoldsContract(st, w, tx) ==
    LET qty == quantity(tx)
        key == ToLower(tx.ContractAddress)
    IN  IF qty = Nil
        THEN [st EXCEPT !.logs = Append(@, tx.ContractAddress)]
        ELSE LET agg == IF key \in DOMAIN st.aggregates
                        THEN st.aggregates[key]
                        ELSE NewAggregate(tx)
             IN  [st EXCEPT !.aggregates = Put(@, key, Move(agg, w, tx, Deref(qty)))]

\* One iteration of the loop over txs; st holds the map and the log.
LoopBody(st, w, tx) ==
    LET qty == quantity(tx)
        key == tx.ContractAddress
    IN  IF qty = Nil
        THEN [st EXCEPT !.logs = Append(@, key)]
        ELSE LET agg == IF key \in DOMAIN st.aggregates
                        THEN st.aggregates[key]
                        ELSE NewAggregate(tx)
             IN  [st EXCEPT !.aggregates = Put(@, key, Move(agg, w, tx, Deref(qty)))]

\* Visit with the negative balances left out too.
VisitPositiveOnly(res, agg) ==
    IF agg.balance <= 0 THEN res
    ELSE Append(res, [Address |-> agg.address,
                      Name    |-> agg.name,
                      Symbol  |-> agg.symbol,
                      Balance |-> formatTokenBalance(Ptr(agg.balance), agg.decimals)])

\* One iteration of the range over the map: the zero balances are left out.
Visit(res, agg) ==
    IF agg.balance = 0 THEN res
    ELSE Append(res, [Address |-> agg.address,
                      Name    |-> agg.name,
                      Symbol  |-> agg.symbol,
                      Balance |-> formatTokenBalance(Ptr(agg.balance), agg.decimals)])

\* less on the names as they are, letter case included.
lessCaseSensitive(a, b) == StrLess(a.Name, b.Name)

\* The less function given to sort.Slice.
less(a, b) == StrLess(ToLower(a.Name), ToLower(b.Name))

Swap(data, j, k) == [data EXCEPT ![j] = data[k], ![k] = data[j]]

\* sort.Slice on no more than 12 elements, which the results of the model
\* are, is an insertion sort:
\*   for i := a + 1; i < b; i++ {
\*       for j := i; j > a && less(j, j-1); j-- { swap(j, j-1) } }
RECURSIVE SiftDown(_, _)
SiftDown(data, j) ==
    IF j > 1 /\ less(data[j], data[j - 1])
    THEN SiftDown(Swap(data, j, j - 1), j - 1)
    ELSE data

RECURSIVE InsertionSort(_, _)
InsertionSort(data, k) ==
    IF k > Len(data) THEN data ELSE InsertionSort(SiftDown(data, k), k + 1)

sortSlice(data) == InsertionSort(data, 2)

Init ==
    /\ walletAddress \in Wallets
    /\ txs \in TxLists
    /\ pc = "start"
    /\ wallet = <<>>
    /\ i = 0
    /\ aggregates = <<>>
    /\ logs = <<>>
    /\ pending = {}
    /\ result = <<>>
    /\ RecIdle /\ GwIdle /\ FmtIdle /\ ConcIdle /\ MainIdle /\ HdIdle /\ FwIdle

\* if len(txs) == 0 { return []TokenBalance{} }
ReturnEmpty ==
    /\ pc = "start"
    /\ Len(txs) = 0
    /\ result' = <<>>
    /\ pc' = "done"
    /\ UNCHANGED <<concVars, mainVars, hdVars, fwVars, recVars, gwVars, fmtVars, walletAddress, txs, wallet, i, aggregates, logs, pending>>

\* wallet := strings.ToLower(walletAddress); aggregates := make(map...)
Enter ==
    /\ pc = "start"
    /\ Len(txs) # 0
    /\ wallet' = WalletKey(walletAddress)
    /\ aggregates' = <<>>
    /\ i' = 1
    /\ pc' = "loop"
    /\ UNCHANGED <<concVars, mainVars, hdVars, fwVars, recVars, gwVars, fmtVars, walletAddress, txs, logs, pending, result>>

\* Iterate with the range stepping over a record after each one it handles.
IterateSkipsAhead ==
    /\ pc = "loop"
    /\ i <= Len(txs)
    /\ LET st == LoopBody([aggregates |-> aggregates, logs |-> logs], wallet, txs[i])
       IN  /\ aggregates' = st.aggregates
           /\ logs' = st.logs
    /\ i' = i + 2
    /\ UNCHANGED <<concVars, mainVars, hdVars, fwVars, recVars, gwVars, fmtVars, walletAddress, txs, pc, wallet, pending, result>>

\* for _, tx := range txs { ... }
Iterate ==
    /\ pc = "loop"
    /\ i <= Len(txs)
    /\ LET st == LoopBody([aggregates |-> aggregates, logs |-> logs], wallet, txs[i])
       IN  /\ aggregates' = st.aggregates
           /\ logs' = st.logs
    /\ i' = i + 1
    /\ UNCHANGED <<concVars, mainVars, hdVars, fwVars, recVars, gwVars, fmtVars, walletAddress, txs, pc, wallet, pending, result>>

\* result := make([]TokenBalance, 0, len(aggregates)); the range over the
\* map begins.
LeaveLoop ==
    /\ pc = "loop"
    /\ i > Len(txs)
    /\ result' = <<>>
    /\ pending' = DOMAIN aggregates
    /\ pc' = "range"
    /\ UNCHANGED <<concVars, mainVars, hdVars, fwVars, recVars, gwVars, fmtVars, walletAddress, txs, wallet, i, aggregates, logs>>

\* for _, agg := range aggregates { ... }: Go visits the keys of a map in an
\* order it does not specify and that differs from run to run.
RangeAggregates ==
    /\ pc = "range"
    /\ \E key \in pending :
          /\ result' = Visit(result, aggregates[key])
          /\ pending' = pending \ {key}
    /\ UNCHANGED <<concVars, mainVars, hdVars, fwVars, recVars, gwVars, fmtVars, walletAddress, txs, pc, wallet, i, aggregates, logs>>

\* sort.Slice(result, ...); return result
SortAndReturn ==
    /\ pc = "range"
    /\ pending = {}
    /\ result' = sortSlice(result)
    /\ pc' = "done"
    /\ UNCHANGED <<concVars, mainVars, hdVars, fwVars, recVars, gwVars, fmtVars, walletAddress, txs, wallet, i, aggregates, logs, pending>>

Next ==
    \/ ReturnEmpty
    \/ Enter
    \/ Iterate
    \/ LeaveLoop
    \/ RangeAggregates
    \/ SortAndReturn

Spec == Init /\ [][Next]_vars

----------------------------------------------------------------------------
(* summarizeTokenBalances as a function of its arguments *)

\* The map and the log after the loop has handled the records of list, in
\* order, from the state st.
RECURSIVE RunLoop(_, _, _)
RunLoop(st, w, list) ==
    IF list = <<>> THEN st
    ELSE RunLoop(LoopBody(st, w, Head(list)), w, Tail(list))

Aggregate(address, list) ==
    RunLoop([aggregates |-> <<>>, logs |-> <<>>], WalletKey(address), list)

\* The orders in which a range over a map with the keys S may visit them.
RECURSIVE Orders(_)
Orders(S) ==
    IF S = {} THEN {<<>>}
    ELSE UNION {{<<key>> \o o : o \in Orders(S \ {key})} : key \in S}

RECURSIVE VisitAll(_, _, _)
VisitAll(res, aggs, order) ==
    IF order = <<>> THEN res
    ELSE VisitAll(Visit(res, aggs[Head(order)]), aggs, Tail(order))

\* Every list a call with these arguments can return.
Outcomes(address, list) ==
    IF Len(list) = 0 THEN {<<>>}
    ELSE LET aggs == Aggregate(address, list).aggregates
         IN  {sortSlice(VisitAll(<<>>, aggs, o)) : o \in Orders(DOMAIN aggs)}

----------------------------------------------------------------------------
(* What the properties speak of *)

\* The records the loop has handled so far.
Handled == IF i = 0 THEN <<>> ELSE SubSeq(txs, 1, i - 1)

\* Address equality that ignores letter case.
EqualFold(a, b) == ToLower(a) = ToLower(b)

Usable(tx) == quantity(tx) # Nil

Inflow(tx) == EqualFold(tx.To, walletAddress)

Outflow(tx) == EqualFold(tx.From, walletAddress)

SelfTransfer(tx) == Inflow(tx) /\ Outflow(tx)

\* The balance of a contract in a map, 0 while it has no aggregate.
BalanceOf(aggs, c) == IF c \in DOMAIN aggs THEN aggs[c].balance ELSE 0

\* The contracts a result lists.
Listed(res) == {res[k].Address : k \in 1..Len(res)}

Perms(n) == Permutations(1..n)

Permuted(list, p) == [k \in 1..Len(list) |-> list[p[k]]]

InsertAt(list, k, tx) == SubSeq(list, 1, k) \o <<tx>> \o SubSeq(list, k + 1, Len(list))

\* The first usable record of contract c in list.
FirstOf(list, c) ==
    list[CHOOSE j \in 1..Len(list) :
            /\ Usable(list[j]) /\ list[j].ContractAddress = c
            /\ \A k \in 1..(j - 1) : ~(Usable(list[k]) /\ list[k].ContractAddress = c)]

\* The sum of the quantities of the usable records of contract c in list
\* that come into the target, and of those that leave it and are not added.
RECURSIVE SumAdded(_, _)
SumAdded(list, c) ==
    IF list = <<>> THEN 0
    ELSE SumAdded(Tail(list), c) +
         (IF Usable(Head(list)) /\ Head(list).ContractAddress = c /\ Inflow(Head(list))
          THEN Deref(quantity(Head(list))) ELSE 0)

RECURSIVE SumSubtracted(_, _)
SumSubtracted(list, c) ==
    IF list = <<>> THEN 0
    ELSE SumSubtracted(Tail(list), c) +
         (IF /\ Usable(Head(list)) /\ Head(list).ContractAddress = c
             /\ ~Inflow(Head(list)) /\ Outflow(Head(list))
          THEN Deref(quantity(Head(list))) ELSE 0)

----------------------------------------------------------------------------
(* C1 *)

\* C1: at every point of the loop each contract with a usable record has an
\* aggregate whose balance is the sum of the quantities added minus the sum
\* of the quantities subtracted over the records handled so far, and when
\* the call returns every permutation of the list gives the same contracts
\* and the same balances.
C1_BalanceIsNetFlow ==
    /\ DOMAIN aggregates =
          {Handled[j].ContractAddress : j \in {k \in 1..Len(Handled) : Usable(Handled[k])}}
    /\ \A c \in DOMAIN aggregates :
          aggregates[c].balance = SumAdded(Handled, c) - SumSubtracted(Handled, c)
    /\ pc = "done" =>
          \A p \in Perms(Len(txs)) :
             LET other == Aggregate(walletAddress, Permuted(txs, p)).aggregates
             IN  /\ DOMAIN other = DOMAIN aggregates
                 /\ \A c \in DOMAIN other : other[c].balance = aggregates[c].balance

\* A call has returned after adding and subtracting for one contract whose
\* balance is left non-zero, on a list of three records.
C1_Witness ==
    /\ pc = "done"
    /\ Len(txs) = 3
    /\ \E c \in DOMAIN aggregates :
          /\ SumAdded(txs, c) > 0
          /\ SumSubtracted(txs, c) > 0
          /\ aggregates[c].balance # 0

----------------------------------------------------------------------------
(* C2 *)

\* C2: handling a usable record whose to and from both equal the target,
\* ignoring case, leaves the balance of its contract as it was.
C2_SelfTransferNoChange ==
    [][(/\ pc = "loop" /\ i <= Len(txs)
        /\ Usable(txs[i]) /\ SelfTransfer(txs[i]))
       => BalanceOf(aggregates', txs[i].ContractAddress)
            = BalanceOf(aggregates, txs[i].ContractAddress)]_vars

----------------------------------------------------------------------------
(* C3 *)

\* C3: handling a usable record that is not a self-transfer creates the
\* aggregate of its contract if there was none, leaves every other
\* aggregate as it was, and moves the balance of its contract by plus the
\* quantity when to is the target, by minus the quantity when from is, and
\* by nothing otherwise, the addresses compared without regard to case.
C3_TransferEffect ==
    [][(/\ pc = "loop" /\ i <= Len(txs)
        /\ Usable(txs[i]) /\ ~SelfTransfer(txs[i]))
       => LET tx  == txs[i]
              key == tx.ContractAddress
              qty == Deref(quantity(tx))
          IN  /\ DOMAIN aggregates' = DOMAIN aggregates \cup {key}
              /\ \A c \in DOMAIN aggregates : c # key => aggregates'[c] = aggregates[c]
              /\ BalanceOf(aggregates', key) =
                    BalanceOf(aggregates, key) +
                    (IF Inflow(tx) THEN qty ELSE IF Outflow(tx) THEN 0 - qty ELSE 0)]_vars

\* A call has handled a record into the target, a record out of the target
\* and a record between two other addresses, the first two with an address
\* that matches the target only when case is ignored.
C3_Witness ==
    /\ pc = "done"
    /\ \E j, k, m \in 1..Len(txs) :
          /\ Usable(txs[j]) /\ Inflow(txs[j]) /\ ~Outflow(txs[j])
          /\ txs[j].To # walletAddress
          /\ Usable(txs[k]) /\ Outflow(txs[k]) /\ ~Inflow(txs[k])
          /\ Usable(txs[m]) /\ ~Outflow(txs[m]) /\ ~Inflow(txs[m])
          /\ txs[m].ContractAddress \notin {txs[j].ContractAddress, txs[k].ContractAddress}

----------------------------------------------------------------------------
(* C4 *)

\* C4: the returned list holds exactly the contracts whose final balance is
\* not zero, each once.
C4_NonZeroOnly ==
    pc = "done" =>
       /\ Listed(result) = {c \in DOMAIN aggregates : aggregates[c].balance # 0}
       /\ Len(result) = Cardinality(Listed(result))

\* A call has returned with a contract whose inflow and outflow cancel, and
\* with another contract listed.
C4_Witness ==
    /\ pc = "done"
    /\ \E c \in DOMAIN aggregates :
          /\ SumAdded(txs, c) > 0
          /\ SumAdded(txs, c) = SumSubtracted(txs, c)
          /\ c \notin Listed(result)
    /\ result # <<>>

----------------------------------------------------------------------------
(* C5 *)

SortedByName(res) ==
    \A k \in 1..(Len(res) - 1) :
       ~StrLess(ToLower(res[k + 1].Name), ToLower(res[k].Name))

\* C5: the returned list is in ascending order of lower-cased name: no
\* entry's lower-cased name is greater than that of the entry after it.
\* This is for every input and every order of the map iteration; TxLists
\* holds every permutation of each of its lists, so it is for every
\* permutation of an input too.
C5_SortedByName ==
    pc = "done" => SortedByName(result)

\* A call has returned three tokens, among them an upper-case name that the
\* byte order puts before a lower-case one and the lower-cased order after.
C5_Witness ==
    /\ pc = "done"
    /\ Len(result) = 3
    /\ \E j, k \in 1..Len(result) :
          /\ j < k
          /\ StrLess(result[k].Name, result[j].Name)
          /\ StrLess(ToLower(result[j].Name), ToLower(result[k].Name))

----------------------------------------------------------------------------
(* C6 *)

\* C6: a call can return one list only for given arguments.
C6_Deterministic ==
    pc = "done" => Outcomes(walletAddress, txs) = {result}

----------------------------------------------------------------------------
(* C7 *)

\* The records of the pool without a usable quantity.
Unusable == {tx \in TxPool : ~Usable(tx)}

\* C7: with a record without usable quantity put in at any place of the
\* list, the loop ends with the same map (the same contracts, with the same
\* name, symbol, decimals and balance) and the call can return what it
\* returned without it.
C7_UnusableRecordNoEffect ==
    pc = "done" =>
       \A bad \in Unusable : \A k \in 0..Len(txs) :
          LET longer == InsertAt(txs, k, bad)
              outs   == Outcomes(walletAddress, longer)
          IN  /\ Aggregate(walletAddress, longer).aggregates = aggregates
              /\ result \in outs
              /\ \A res \in outs : Listed(res) = Listed(result)

\* A call has returned a token whose contract had a record without usable
\* quantity, carrying another name, before its first usable record.
C7_Witness ==
    /\ pc = "done"
    /\ \E j, k \in 1..Len(txs) :
          /\ j < k
          /\ ~Usable(txs[j]) /\ Usable(txs[k])
          /\ txs[j].ContractAddress = txs[k].ContractAddress
          /\ \A m \in 1..(k - 1) : Usable(txs[m]) => txs[m].ContractAddress # txs[k].ContractAddress
          /\ displayName(txs[j]) # displayName(txs[k])
          /\ txs[k].ContractAddress \in Listed(result)

----------------------------------------------------------------------------
(* C8 *)

\* The contracts of the records of list without usable quantity, in order.
RECURSIVE SkippedContracts(_)
SkippedContracts(list) ==
    IF list = <<>> THEN <<>>
    ELSE (IF Usable(Head(list)) THEN <<>> ELSE <<Head(list).ContractAddress>>)
         \o SkippedContracts(Tail(list))

\* C8: the log holds one entry for each handled record without usable
\* quantity and none for the others; the map is the one the usable records
\* alone give (a record taken for zero would have an aggregate of its own,
\* or give its name to one); and the call returns, with its whole list
\* handled, a list that a call on the usable records alone can return.
C8_SkippedAndReported ==
    /\ logs = SkippedContracts(Handled)
    /\ aggregates = Aggregate(walletAddress, SelectSeq(Handled, Usable)).aggregates
    /\ pc = "done" =>
          /\ Handled = txs
          /\ result \in Outcomes(walletAddress, SelectSeq(txs, Usable))

\* A call has returned a token from a list that holds a record without any
\* quantity field and a record whose quantity text does not parse.
C8_Witness ==
    /\ pc = "done"
    /\ result # <<>>
    /\ Len(logs) = 2
    /\ \E j, k \in 1..Len(txs) :
          /\ firstNonEmpty(<<txs[j].TokenQuantity, txs[j].TokenQuantityAlt>>) = <<>>
          /\ firstNonEmpty(<<txs[k].TokenQuantity, txs[k].TokenQuantityAlt>>) # <<>>
          /\ ~Usable(txs[k])

----------------------------------------------------------------------------
(* C9 *)

\* C9: every aggregate carries the address, name, symbol and decimals of
\* the first usable record of its contract, and every entry of the returned
\* list carries them with the balance rendered with those decimals.
C9_FirstRecordWins ==
    /\ \A c \in DOMAIN aggregates :
          LET first == FirstOf(Handled, c)
          IN  /\ aggregates[c].address = first.ContractAddress
              /\ aggregates[c].name = displayName(first)
              /\ aggregates[c].symbol = displaySymbol(first)
              /\ aggregates[c].decimals = decimals(first)
    /\ pc = "done" =>
          \A k \in 1..Len(result) :
             LET first == FirstOf(txs, result[k].Address)
             IN  result[k] =
                    [Address |-> first.ContractAddress,
                     Name    |-> displayName(first),
                     Symbol  |-> displaySymbol(first),
                     Balance |-> formatTokenBalance(
                                    Ptr(aggregates[result[k].Address].balance),
                                    decimals(first))]

\* A call has returned a token whose contract has two usable records that
\* differ in name, symbol and decimals, the balance rendered differently
\* under the decimals of the second.
C9_Witness ==
    /\ pc = "done"
    /\ \E j, k \in 1..Len(txs) :
          /\ j < k
          /\ Usable(txs[j]) /\ Usable(txs[k])
          /\ txs[j].ContractAddress = txs[k].ContractAddress
          /\ \A m \in 1..(j - 1) : txs[m].ContractAddress # txs[j].ContractAddress
          /\ displayName(txs[j]) # displayName(txs[k])
          /\ displaySymbol(txs[j]) # displaySymbol(txs[k])
          /\ decimals(txs[j]) # decimals(txs[k])
          /\ txs[j].ContractAddress \in Listed(result)
          /\ formatTokenBalance(Ptr(aggregates[txs[j].ContractAddress].balance), decimals(txs[j]))
                # formatTokenBalance(Ptr(aggregates[txs[j].ContractAddress].balance), decimals(txs[k]))

----------------------------------------------------------------------------
(* C10 *)

\* C10: every aggregate, and every entry of the returned list, has a
\* display name that is not empty.
C10_NameNotEmpty ==
    /\ \A c \in DOMAIN aggregates : aggregates[c].name # <<>>
    /\ \A k \in 1..Len(result) : result[k].Name # <<>>

----------------------------------------------------------------------------
(* GetWalletTokens *)

\* The length validateWalletAddress asks for.
AddressLen == 42

\* The longest list of records a reply of the API carries in the model.
MaxReplyLen == 2

UpperLetters == <<"A", "B", "C", "D", "E", "F", "G", "H", "I", "J", "K", "L", "M",
                  "N", "O", "P", "Q", "R", "S", "T", "U", "V", "W", "X", "Y", "Z">>

LowerLetters == <<"a", "b", "c", "d", "e", "f", "g", "h", "i", "j", "k", "l", "m",
                  "n", "o", "p", "q", "r", "s", "t", "u", "v", "w", "x", "y", "z">>

\* The letter case folding of strings.EqualFold, on ASCII.
FoldChar(c) ==
    IF \E k \in 1..26 : UpperLetters[k] = c
    THEN LowerLetters[CHOOSE k \in 1..26 : UpperLetters[k] = c]
    ELSE c

\* strings.EqualFold
strEqualFold(s, t) ==
    /\ Len(s) = Len(t)
    /\ \A k \in 1..Len(s) : FoldChar(s[k]) = FoldChar(t[k])

\* strings.HasPrefix
HasPrefix(s, prefix) ==
    Len(s) >= Len(prefix) /\ SubSeq(s, 1, Len(prefix)) = prefix

Repeat(c, n) == [k \in 1..n |-> c]

\* "No transactions found"
NoTransactionsText ==
    <<"N", "o", " ", "t", "r", "a", "n", "s", "a", "c", "t", "i", "o", "n", "s",
      " ", "f", "o", "u", "n", "d">>

\* The same in capitals, as another API version may write it.
NoTransactionsCaps ==
    <<"N", "O", " ", "T", "R", "A", "N", "S", "A", "C", "T", "I", "O", "N", "S",
      " ", "F", "O", "U", "N", "D">>

\* "Max rate limit reached", the result text of a throttled call.
RateLimitText ==
    <<"M", "a", "x", " ", "r", "a", "t", "e", " ", "l", "i", "m", "i", "t",
      " ", "r", "e", "a", "c", "h", "e", "d">>

\* The errors, by what they are; NoError is a nil error.
NoError == "nil"

ErrInvalidWalletAddress == "invalid ethereum address"

ErrNoTransactions == "no token transactions found"

\* A slice is nil or holds elements; a nil slice has none.
NilSlice == [isNil |-> TRUE, elems |-> <<>>]

MakeSlice(elems) == [isNil |-> FALSE, elems |-> elems]

validateWalletAddress(address) ==
    IF Len(address) # AddressLen \/ ~HasPrefix(address, <<"0", "x">>)
    THEN ErrInvalidWalletAddress
    ELSE NoError

\* summarizeTokenBalances with an empty list for the empty input.
summarizeTokenBalancesNilWhenEmpty(address, list) ==
    IF Len(list) = 0 THEN {NilSlice}
    ELSE {IF res = <<>> THEN NilSlice ELSE MakeSlice(res) : res \in Outcomes(address, list)}

\* The slices a call of summarizeTokenBalances can return: []TokenBalance{}
\* for an empty list, make([]TokenBalance, 0, n) with what was appended
\* otherwise; neither is nil.
summarizeTokenBalances(address, list) ==
    {MakeSlice(res) : res \in Outcomes(address, list)}

\* The addresses given to GetWalletTokens: a prefix and a run of one
\* character, of 41, 42 or 43 characters in all.
GwAddresses ==
    {prefix \o Repeat(filler, n) :
        prefix \in {<<"0", "x">>, <<"0", "X">>, <<"a", "b">>},
        filler \in {"a", "A", "z"},
        n \in {39, 40, 41}}

\* The records of a reply, for the address asked about.
GwRecords(address) ==
    {Tx(<<"x">>, <<"B">>, <<>>, <<"s">>, <<>>, <<"1">>, <<>>,
        <<"1", "2">>, <<>>, <<"b">>, ToLower(address)),
     Tx(<<"x">>, <<"B">>, <<>>, <<"s">>, <<>>, <<"1">>, <<>>,
        <<"1", "2">>, <<>>, address, <<"b">>),
     Tx(<<"y">>, <<"a">>, <<>>, <<>>, <<>>, <<>>, <<>>,
        <<"7">>, <<>>, <<"b">>, address),
     Tx(<<"y">>, <<"d">>, <<>>, <<>>, <<>>, <<>>, <<>>,
        <<>>, <<>>, <<"b">>, address)}

\* The result member of a reply: absent, the JSON null, a JSON string, a
\* JSON array of records, or any other JSON value.
GwResults(address) ==
    {[kind |-> k, text |-> <<>>, txs |-> <<>>] : k \in {"absent", "null", "other"}}
    \cup {[kind |-> "string", text |-> t, txs |-> <<>>] :
             t \in {NoTransactionsText, NoTransactionsCaps, RateLimitText}}
    \cup {[kind |-> "array", text |-> <<>>, txs |-> list] :
             list \in UNION {[1..n -> GwRecords(address)] : n \in 0..MaxReplyLen}}

\* The replies: the transport fails, or it brings an HTTP status and a body
\* that decodes into an etherscanResponse or does not.
GwReplies(address) ==
    LET none == [kind |-> "absent", text |-> <<>>, txs |-> <<>>]
    IN  {[transportOk |-> FALSE, code |-> 0, decodes |-> FALSE,
          Status |-> "", Message |-> <<>>, Result |-> none],
         [transportOk |-> TRUE, code |-> 500, decodes |-> FALSE,
          Status |-> "", Message |-> <<>>, Result |-> none],
         [transportOk |-> TRUE, code |-> 200, decodes |-> FALSE,
          Status |-> "", Message |-> <<>>, Result |-> none]}
        \cup {[transportOk |-> TRUE, code |-> 200, decodes |-> TRUE,
               Status |-> st, Message |-> msg, Result |-> res] :
                 st \in {"0", "1"},
                 msg \in {<<"O", "K">>, <<"N", "O", "T", "O", "K">>,
                          NoTransactionsText, NoTransactionsCaps},
                 res \in GwResults(address)}

\* etherscanResponse.tokenTransactions: json.Unmarshal into a string takes
\* a JSON string and null (which leaves the string empty), into a slice of
\* records takes an array.
tokenTransactions(r) ==
    IF r.Result.kind = "absent"
    THEN [txs |-> MakeSlice(<<>>), err |-> NoError]
    ELSE IF r.Result.kind \in {"string", "null"}
    THEN IF strEqualFold(r.Result.text, NoTransactionsText)
         THEN [txs |-> NilSlice, err |-> ErrNoTransactions]
         ELSE [txs |-> NilSlice, err |-> "unexpected result text"]
    ELSE IF r.Result.kind = "array"
    THEN [txs |-> MakeSlice(r.Result.txs), err |-> NoError]
    ELSE [txs |-> NilSlice, err |-> "parsing token transactions"]

\* fetchTokenTransactions, from the reply on.
fetchTokenTransactions(reply) ==
    IF ~reply.transportOk THEN [txs |-> NilSlice, err |-> "calling etherscan"]
    ELSE IF reply.code # 200
    THEN [txs |-> NilSlice, err |-> "etherscan responded with status"]
    ELSE IF ~reply.decodes
    THEN [txs |-> NilSlice, err |-> "decoding etherscan response"]
    ELSE LET parsed == tokenTransactions(reply)
         IN  IF parsed.err # NoError THEN [txs |-> NilSlice, err |-> parsed.err]
             ELSE IF reply.Status = "0"
             THEN IF strEqualFold(reply.Message, NoTransactionsText)
                  THEN [txs |-> NilSlice, err |-> ErrNoTransactions]
                  ELSE [txs |-> NilSlice, err |-> "etherscan api error"]
             ELSE parsed

\* GetWalletTokensAfterFetch without the case for ErrNoTransactions.
GetWalletTokensPassesSentinel(address, fetched) ==
    IF fetched.err # NoError
    THEN {[response |-> Nil, err |-> fetched.err]}
    ELSE {[response |-> Ptr([Address |-> address, Tokens |-> tokens]), err |-> NoError] :
             tokens \in summarizeTokenBalances(address, fetched.txs.elems)}

\* GetWalletTokensAfterFetch with every error of the fetch answered by an
\* empty response.
GetWalletTokensSwallowsErrors(address, fetched) ==
    IF fetched.err # NoError
    THEN {[response |-> Ptr([Address |-> address, Tokens |-> MakeSlice(<<>>)]),
           err |-> NoError]}
    ELSE {[response |-> Ptr([Address |-> address, Tokens |-> tokens]), err |-> NoError] :
             tokens \in summarizeTokenBalances(address, fetched.txs.elems)}

\* What GetWalletTokens can return once fetchTokenTransactions has returned
\* fetched.
GetWalletTokensAfterFetch(address, fetched) ==
    IF fetched.err # NoError
    THEN IF fetched.err = ErrNoTransactions
         THEN {[response |-> Ptr([Address |-> address, Tokens |-> MakeSlice(<<>>)]),
                err |-> NoError]}
         ELSE {[response |-> Nil, err |-> fetched.err]}
    ELSE {[response |-> Ptr([Address |-> address, Tokens |-> tokens]), err |-> NoError] :
             tokens \in summarizeTokenBalances(address, fetched.txs.elems)}

GwInit ==
    /\ gwPc = "start"
    /\ gwAddress \in GwAddresses
    /\ gwRequests = 0
    /\ gwReply = <<>>
    /\ gwResponse = Nil
    /\ gwErr = "unset"
    /\ SumIdle /\ RecIdle /\ FmtIdle /\ ConcIdle /\ MainIdle /\ HdIdle /\ FwIdle

\* if err := validateWalletAddress(walletAddress); err != nil { return nil, err }
GwReject ==
    /\ gwPc = "start"
    /\ validateWalletAddress(gwAddress) # NoError
    /\ gwResponse' = Nil
    /\ gwErr' = validateWalletAddress(gwAddress)
    /\ gwPc' = "done"
    /\ UNCHANGED <<concVars, mainVars, hdVars, fwVars, sumVars, recVars, fmtVars, gwAddress, gwRequests, gwReply>>

\* fetchTokenTransactions builds the request and t.client.Do sends it.
GwSend ==
    /\ gwPc = "start"
    /\ validateWalletAddress(gwAddress) = NoError
    /\ gwRequests' = gwRequests + 1
    /\ gwPc' = "fetching"
    /\ UNCHANGED <<concVars, mainVars, hdVars, fwVars, sumVars, recVars, fmtVars, gwAddress, gwReply, gwResponse, gwErr>>

\* The reply arrives, fetchTokenTransactions returns and GetWalletTokens
\* returns.
GwReturn ==
    /\ gwPc = "fetching"
    /\ \E reply \in GwReplies(gwAddress) :
          /\ gwReply' = reply
          /\ \E ret \in GetWalletTokensAfterFetch(gwAddress, fetchTokenTransactions(reply)) :
                /\ gwResponse' = ret.response
                /\ gwErr' = ret.err
    /\ gwPc' = "done"
    /\ UNCHANGED <<concVars, mainVars, hdVars, fwVars, sumVars, recVars, fmtVars, gwAddress, gwRequests>>

GwNext == GwReject \/ GwSend \/ GwReturn

GwSpec == GwInit /\ [][GwNext]_vars

----------------------------------------------------------------------------
(* C11 *)

HexDigits ==
    {Digits[k] : k \in 1..10} \cup {LowerLetters[k] : k \in 1..6}
    \cup {UpperLetters[k] : k \in 1..6}

\* The canonical form: 0x and forty hexadecimal digits.
Canonical(address) ==
    /\ Len(address) = 42
    /\ address[1] = "0" /\ address[2] = "x"
    /\ \A k \in 3..42 : address[k] \in HexDigits

\* C11: a request is sent, or anything but ErrInvalidWalletAddress is
\* returned, only for an address in the canonical form of 0x and forty
\* hexadecimal digits.
C11_OnlyCanonicalFetched ==
    ~Canonical(gwAddress) =>
       /\ gwRequests = 0
       /\ gwPc # "fetching"
       /\ gwPc = "done" => gwErr = ErrInvalidWalletAddress /\ gwResponse = Nil

----------------------------------------------------------------------------
(* C12 *)

\* A reply that says there are no transactions: it arrived with status 200
\* and decoded, and its result is that text, or its result is a list or
\* absent while its status is "0" and its message is that text; the case of
\* the letters does not count.
Folded(s) == [k \in 1..Len(s) |-> FoldChar(s[k])]

SentinelReply(reply) ==
    /\ reply.transportOk /\ reply.code = 200 /\ reply.decodes
    /\ \/ /\ reply.Result.kind = "string"
          /\ Folded(reply.Result.text) = Folded(NoTransactionsText)
       \/ /\ reply.Result.kind \in {"absent", "array"}
          /\ reply.Status = "0"
          /\ Folded(reply.Message) = Folded(NoTransactionsText)

----------------------------------------------------------------------------
(* C13 *)

\* The contracts with a non-zero balance in the records the reply brought.
GwNonZero ==
    LET aggs == Aggregate(gwAddress, gwReply.Result.txs).aggregates
    IN  {c \in DOMAIN aggs : aggs[c].balance # 0}

\* C13: a response returned with a nil error is there, its token list is
\* not nil, and the list is empty exactly when no token of the reply has a
\* non-zero balance or the reply said that there are no transactions.
C13_TokensPresent ==
    (gwPc = "done" /\ gwErr = NoError) =>
       /\ gwResponse # Nil
       /\ ~Deref(gwResponse).Tokens.isNil
       /\ Deref(gwResponse).Tokens.elems = <<>>
             <=> (GwNonZero = {} \/ SentinelReply(gwReply))

\* A call has returned an empty list for a reply with records whose
\* inflow and outflow cancel, status "1".
C13_Witness ==
    /\ gwPc = "done" /\ gwErr = NoError
    /\ gwReply.Status = "1"
    /\ Len(gwReply.Result.txs) = 2
    /\ \E j, k \in 1..2 :
          /\ Usable(gwReply.Result.txs[j]) /\ Usable(gwReply.Result.txs[k])
          /\ Folded(gwReply.Result.txs[j].To) = Folded(gwAddress)
          /\ Folded(gwReply.Result.txs[k].From) = Folded(gwAddress)
    /\ Deref(gwResponse).Tokens = MakeSlice(<<>>)

----------------------------------------------------------------------------
(* C14 *)

\* A text of spaces only, the empty text included.
Blank(s) == \A k \in 1..Len(s) : s[k] = " "

\* A text that is a decimal integer: an optional sign, then digits only and
\* at least one.
DecimalText(s) ==
    \E k \in 0..1 :
       /\ k <= Len(s)
       /\ k = 1 => s[1] \in {"+", "-"}
       /\ Len(s) > k
       /\ \A j \in (k + 1)..Len(s) : s[j] \in {"0", "1", "2", "3", "4", "5", "6", "7", "8", "9"}

\* The record carries no quantity text, or the text it carries first is
\* not a decimal integer.
NoQuantityText(tx) ==
    IF ~Blank(tx.TokenQuantity) THEN ~DecimalText(tx.TokenQuantity)
    ELSE IF ~Blank(tx.TokenQuantityAlt) THEN ~DecimalText(tx.TokenQuantityAlt)
    ELSE TRUE

\* C14: a call on a list in which every record is without usable quantity,
\* the empty list included, returns the empty list, and what it returns is
\* the very value returned for the empty list: an empty slice that is not
\* nil.  The function returns no error value.
C14_EmptyWhenNothingUsable ==
    (pc = "done" /\ \A k \in 1..Len(txs) : NoQuantityText(txs[k])) =>
       /\ result = <<>>
       /\ summarizeTokenBalances(walletAddress, txs) = {MakeSlice(<<>>)}
       /\ summarizeTokenBalances(walletAddress, txs) =
             summarizeTokenBalances(walletAddress, <<>>)

\* A call has returned on three records, one without any quantity text,
\* one whose text does not parse while its other alias would, all three
\* reported as skipped.
C14_Witness ==
    /\ pc = "done"
    /\ Len(txs) = 3
    /\ \A k \in 1..3 : NoQuantityText(txs[k])
    /\ \E k \in 1..3 : Blank(txs[k].TokenQuantity) /\ Blank(txs[k].TokenQuantityAlt)
    /\ \E k \in 1..3 : ~Blank(txs[k].TokenQuantity) /\ DecimalText(txs[k].TokenQuantityAlt)
    /\ Len(logs) = 3
    /\ result = <<>>

----------------------------------------------------------------------------
(* C15 *)

\* C15: every usable quantity is zero or more, so handling a usable record
\* into the target does not lower the balance of its contract and handling
\* one out of the target, and not into it, does not raise it.
C15_QuantityNonNegative ==
    [][(pc = "loop" /\ i <= Len(txs) /\ Usable(txs[i]))
       => LET tx  == txs[i]
              key == tx.ContractAddress
          IN  /\ Deref(quantity(tx)) >= 0
              /\ Inflow(tx) =>
                    BalanceOf(aggregates', key) >= BalanceOf(aggregates, key)
              /\ (Outflow(tx) /\ ~Inflow(tx)) =>
                    BalanceOf(aggregates', key) <= BalanceOf(aggregates, key)]_vars

----------------------------------------------------------------------------
(* One record: the field resolution and one turn of the loop *)

\* The texts a decimals field and a quantity field are drawn from: absent,
\* blank, a number, a number with a sign, not a number.
DecTexts == {<<>>, <<" ">>, <<"2">>, <<"-", "1">>, <<"x">>}

QtyTexts == {<<>>, <<" ">>, <<"7">>, <<"5", "x">>}

\* The records: every combination of the aliases present and absent.
RecTxs ==
    {Tx(contract, name, nameAlt, symbol, symbolAlt, dec, decAlt, value, valueAlt,
        <<"b">>, <<"A">>) :
       contract \in {<<>>, <<"x">>},
       name \in {<<>>, <<" ">>, <<"n">>}, nameAlt \in {<<>>, <<"m">>},
       symbol \in {<<>>, <<"s">>}, symbolAlt \in {<<>>, <<"t">>},
       dec \in DecTexts, decAlt \in DecTexts,
       value \in QtyTexts, valueAlt \in QtyTexts}

\* The target of the call the record belongs to.
RecWallet == <<"A">>

\* The map and the log before the record: nothing seen yet, or the
\* contract x seen already.
RecStates ==
    {[aggregates |-> <<>>, logs |-> <<>>],
     [aggregates |-> Put(<<>>, <<"x">>,
                         [address |-> <<"x">>, name |-> <<"o">>, symbol |-> <<>>,
                          decimals |-> 1, balance |-> 5]),
      logs |-> <<>>]}

RecInit ==
    /\ recPc = "start"
    /\ recTx \in RecTxs
    /\ recFields = <<>>
    /\ recState \in RecStates
    /\ SumIdle /\ GwIdle /\ FmtIdle /\ ConcIdle /\ MainIdle /\ HdIdle /\ FwIdle

\* tx.displayName(), tx.displaySymbol(), tx.decimals(), tx.quantity()
RecResolve ==
    /\ recPc = "start"
    /\ recFields' = [name     |-> displayName(recTx),
                     symbol   |-> displaySymbol(recTx),
                     decimals |-> decimals(recTx),
                     quantity |-> quantity(recTx)]
    /\ recPc' = "resolved"
    /\ UNCHANGED <<concVars, mainVars, hdVars, fwVars, sumVars, gwVars, fmtVars, recTx, recState>>

\* The body of the loop over txs, for this record.
RecHandle ==
    /\ recPc = "resolved"
    /\ recState' = LoopBody(recState, WalletKey(RecWallet), recTx)
    /\ recPc' = "done"
    /\ UNCHANGED <<concVars, mainVars, hdVars, fwVars, sumVars, gwVars, fmtVars, recTx, recFields>>

RecNext ==
    \/ RecResolve
    \/ RecHandle

RecSpec == RecInit /\ [][RecNext]_vars

----------------------------------------------------------------------------
(* What the properties on one record speak of *)

\* The methods of the record have returned.
Resolved == recPc \in {"resolved", "done"}

\* The first of two texts that is not blank, the empty text when both are.
FirstNotBlank(a, b) == IF ~Blank(a) THEN a ELSE IF ~Blank(b) THEN b ELSE <<>>

\* The first of two texts that is not empty, the empty text when both are.
FirstNotEmpty(a, b) == IF a # <<>> THEN a ELSE b

\* The integer a decimal text denotes.
DecimalValue(s) ==
    IF Head(s) = "-" THEN 0 - DigitsValue(Tail(s))
    ELSE IF Head(s) = "+" THEN DigitsValue(Tail(s))
    ELSE DigitsValue(s)

----------------------------------------------------------------------------
(* C16 *)

\* C16: the decimals resolved for a record, and the decimals of every
\* aggregate in the map after the record is handled, are zero or more.
C16_DecimalsNonNegative ==
    /\ Resolved => recFields.decimals >= 0
    /\ recPc = "done" =>
          \A c \in DOMAIN recState.aggregates : recState.aggregates[c].decimals >= 0

----------------------------------------------------------------------------
(* C17 *)

\* C17: decimals is 0 when both decimal fields are absent or blank and when
\* the decimal text chosen is not a decimal integer; whatever the decimal
\* fields hold, a record with a usable quantity is not reported as skipped,
\* its contract has an aggregate after the loop body, and an aggregate
\* made for it carries the resolved decimals.
C17_DecimalsDefaultZero ==
    /\ [](LET chosen == FirstNotBlank(recTx.TokenDecimal, recTx.TokenDecimalAlt)
          IN  (Resolved /\ (chosen = <<>> \/ ~DecimalText(chosen))) =>
                 recFields.decimals = 0)
    /\ [][(recPc = "resolved" /\ ~NoQuantityText(recTx)) =>
            LET key == recTx.ContractAddress
                qty == DecimalValue(FirstNotBlank(recTx.TokenQuantity,
                                                  recTx.TokenQuantityAlt))
            IN  /\ recState'.logs = recState.logs
                /\ key \in DOMAIN recState'.aggregates
                /\ key \notin DOMAIN recState.aggregates =>
                      recState'.aggregates[key].decimals = recFields.decimals
                /\ recState'.aggregates[key].balance =
                      BalanceOf(recState.aggregates, key) + qty]_vars

\* A record with a usable quantity whose first decimal text does not parse,
\* while its other alias would, has been handled and made an aggregate
\* with the decimals 0.
C17_Witness ==
    /\ recPc = "done"
    /\ ~NoQuantityText(recTx)
    /\ ~Blank(recTx.TokenDecimal) /\ ~DecimalText(recTx.TokenDecimal)
    /\ DecimalText(recTx.TokenDecimalAlt)
    /\ recTx.ContractAddress = <<>>
    /\ recState.aggregates[<<>>].decimals = 0
    /\ recState.aggregates[<<>>].balance = 7

----------------------------------------------------------------------------
(* C18 *)

\* The quantity the text chosen denotes: none when there is no text or it
\* is not a decimal integer.
QuantityOf(chosen) ==
    IF chosen # <<>> /\ DecimalText(chosen) THEN Ptr(DecimalValue(chosen)) ELSE Nil

\* C18 as stated: the text is the primary field whenever it is not the
\* empty string, the alternate otherwise.
C18_PrimaryWhenNonEmpty ==
    Resolved =>
       recFields.quantity =
          QuantityOf(FirstNotEmpty(recTx.TokenQuantity, recTx.TokenQuantityAlt))

\* C18: the text is the primary field whenever it holds something other
\* than white space, the alternate field when the primary is empty or
\* white space only and the alternate is not; the text chosen is parsed as
\* a base-10 integer; with no text chosen, or a text that does not parse,
\* there is no usable quantity and the other alias is not tried.
C18_PrimaryWhenNotBlank ==
    Resolved =>
       recFields.quantity =
          QuantityOf(FirstNotBlank(recTx.TokenQuantity, recTx.TokenQuantityAlt))

\* A record whose primary quantity field is white space and whose alternate
\* is a number has got that number as its quantity.
C18_Witness ==
    /\ Resolved
    /\ recTx.TokenQuantity = <<" ">>
    /\ recTx.TokenQuantityAlt = <<"7">>
    /\ recFields.quantity = Ptr(7)

----------------------------------------------------------------------------
(* C19 *)

\* C19: displayName is the first of tokenName, TokenName, tokenSymbol,
\* TokenSymbol that is not the empty string, and the contract address when
\* all four are.
C19_DisplayNameOrder ==
    Resolved =>
       LET cands == <<recTx.TokenName, recTx.TokenNameAlt,
                      recTx.TokenSymbol, recTx.TokenSymbolAlt>>
           full  == {k \in 1..4 : cands[k] # <<>>}
       IN  IF full = {} THEN recFields.name = recTx.ContractAddress
           ELSE \E k \in full : /\ \A j \in full : k <= j
                                 /\ recFields.name = cands[k]

\* A record without tokenName, with TokenName and both symbols, has got
\* TokenName as its name.
C19_Witness ==
    /\ Resolved
    /\ recTx.TokenName = <<>>
    /\ recTx.TokenNameAlt # <<>>
    /\ recTx.TokenSymbol # <<>>
    /\ recTx.TokenSymbolAlt # <<>>
    /\ recFields.name = recTx.TokenNameAlt

----------------------------------------------------------------------------
(* A call of formatTokenBalance *)

MaxBalance == 1100

MaxDecimals == 6

\* The balances: every integer of up to four digits, and the amounts of a
\* token with six decimals.
FmtBalances == (0 - MaxBalance)..MaxBalance \cup {1500000, 1000000, 0 - 1500000}

FmtInit ==
    /\ fmtPc = "start"
    /\ fmtBalance \in {Nil} \cup {Ptr(n) : n \in FmtBalances}
    /\ fmtDecimals \in (0 - 1)..MaxDecimals
    /\ fmtText = <<>>
    /\ SumIdle /\ RecIdle /\ GwIdle /\ ConcIdle /\ MainIdle /\ HdIdle /\ FwIdle

FmtReturn ==
    /\ fmtPc = "start"
    /\ fmtText' = formatTokenBalance(fmtBalance, fmtDecimals)
    /\ fmtPc' = "done"
    /\ UNCHANGED <<concVars, mainVars, hdVars, fwVars, sumVars, recVars, gwVars, fmtBalance, fmtDecimals>>

FmtNext == FmtReturn

FmtSpec == FmtInit /\ [][FmtNext]_vars

----------------------------------------------------------------------------
(* C20 *)

RECURSIVE Pow10(_)
Pow10(n) == IF n <= 0 THEN 1 ELSE 10 * Pow10(n - 1)

\* A run of decimal digits, at least one.
DigitRun(s) == s # <<>> /\ DecimalText(s) /\ Head(s) \notin {"+", "-"}

\* The parts of a decimal number text: whether it has a minus sign, the
\* digits before the point and the digits after it.
NumberParts(text) ==
    LET neg  == text # <<>> /\ Head(text) = "-"
        body == IF neg THEN Tail(text) ELSE text
        dots == {k \in 1..Len(body) : body[k] = "."}
        dot  == IF dots = {} THEN Len(body) + 1 ELSE CHOOSE k \in dots : \A j \in dots : k <= j
    IN  [neg  |-> neg,
         int  |-> SubSeq(body, 1, dot - 1),
         frac |-> SubSeq(body, dot + 1, Len(body)),
         dots |-> Cardinality(dots)]

\* text is a decimal number with at most d digits after the point.
NumberText(text, d) ==
    LET p == NumberParts(text)
    IN  /\ DigitRun(p.int)
        /\ p.dots <= 1
        /\ p.dots = 1 => DigitRun(p.frac)
        /\ Len(p.frac) <= d

\* The number text denotes, multiplied by 10^d.
ReadBack(text, d) ==
    LET p == NumberParts(text)
        m == DigitsValue(p.int) * Pow10(d) + DigitsValue(p.frac) * Pow10(d - Len(p.frac))
    IN  IF p.neg THEN 0 - m ELSE m

\* C20: the string returned for a balance b and decimals d is a decimal
\* number which, read back and multiplied by 10^max(d, 0), is b.
C20_ReadsBackExactly ==
    (fmtPc = "done" /\ fmtBalance # Nil) =>
       LET d == IF fmtDecimals > 0 THEN fmtDecimals ELSE 0
       IN  /\ NumberText(fmtText, d)
           /\ ReadBack(fmtText, d) = Deref(fmtBalance)

\* 1500000 with 6 decimals has given "1.5".
C20_Witness ==
    /\ fmtPc = "done"
    /\ fmtBalance = Ptr(1500000)
    /\ fmtDecimals = 6
    /\ fmtText = <<"1", ".", "5">>

----------------------------------------------------------------------------
(* C21 *)

\* C21: the string returned starts with - exactly when the balance is below
\* zero, and what follows the sign is the string returned for the
\* magnitude; the part before the point has at least one digit; a part
\* after the point, when there is one, has at least one digit and does not
\* end in 0; the string does not end in a point.
C21_CanonicalForm ==
    (fmtPc = "done" /\ fmtBalance # Nil) =>
       LET b == Deref(fmtBalance)
           p == NumberParts(fmtText)
           rest == IF p.neg THEN Tail(fmtText) ELSE fmtText
       IN  /\ p.neg <=> b < 0
           /\ rest = formatTokenBalance(Ptr(IF b < 0 THEN 0 - b ELSE b), fmtDecimals)
           /\ DigitRun(p.int)
           /\ p.dots <= 1
           /\ p.dots = 1 => (DigitRun(p.frac) /\ p.frac[Len(p.frac)] # "0")
           /\ fmtText[Len(fmtText)] # "."

\* -1050 with 3 decimals has given "-1.05".
C21_Witness ==
    /\ fmtPc = "done"
    /\ fmtBalance = Ptr(0 - 1050)
    /\ fmtDecimals = 3
    /\ fmtText = <<"-", "1", ".", "0", "5">>

----------------------------------------------------------------------------
(* C22 *)

\* C22: the string returned for the balance 0, whatever the decimals, and
\* for a nil balance, is "0".
C22_ZeroIsZero ==
    (fmtPc = "done" /\ (fmtBalance = Nil \/ fmtBalance = Ptr(0))) =>
       fmtText = <<"0">>

\* The balance 0 with the most decimals has given "0".
C22_Witness ==
    /\ fmtPc = "done"
    /\ fmtBalance = Ptr(0)
    /\ fmtDecimals = MaxDecimals
    /\ fmtText = <<"0">>

----------------------------------------------------------------------------
(* Calls of summarizeTokenBalances at the same time *)

\* The calls: each a goroutine of its own.
Procs == {1, 2}

\* The longest batch a call is given.
MaxConcLen == 2

ConcPool == {InB, SelfA, NoQty}

ConcLists == UNION {[1..n -> ConcPool] : n \in 0..MaxConcLen}

\* The calls are for different targets; their batches may be one and the
\* same slice, which no call writes to.
ConcArgs ==
    {f \in [Procs -> [address : Wallets, txs : ConcLists]] :
        f[1].address = <<"A">> /\ f[2].address = <<"b">>}

\* Acc with every call handed one and the same map.
AccShared(p) == 1

\* aggregates := make(map[string]*tokenAggregate): the map a call makes is
\* a new one, known by the call that made it.
Acc(p) == p

ConcInit ==
    /\ cArgs \in ConcArgs
    /\ cPc = [p \in Procs |-> "start"]
    /\ cWallet = [p \in Procs |-> <<>>]
    /\ cI = [p \in Procs |-> 0]
    /\ cAggs = [p \in Procs |-> <<>>]
    /\ cPending = [p \in Procs |-> {}]
    /\ cResult = [p \in Procs |-> <<>>]
    /\ cLogs = <<>>
    /\ SumIdle /\ RecIdle /\ GwIdle /\ FmtIdle /\ MainIdle /\ HdIdle /\ FwIdle

\* if len(txs) == 0 { return []TokenBalance{} }
CReturnEmpty ==
    \E p \in Procs :
       /\ cPc[p] = "start"
       /\ Len(cArgs[p].txs) = 0
       /\ cResult' = [cResult EXCEPT ![p] = <<>>]
       /\ cPc' = [cPc EXCEPT ![p] = "done"]
       /\ UNCHANGED <<sumVars, recVars, gwVars, fmtVars, mainVars, hdVars, fwVars,
                      cArgs, cWallet, cI, cAggs, cPending, cLogs>>

\* wallet := strings.ToLower(walletAddress); aggregates := make(map...)
CEnter ==
    \E p \in Procs :
       /\ cPc[p] = "start"
       /\ Len(cArgs[p].txs) # 0
       /\ cWallet' = [cWallet EXCEPT ![p] = WalletKey(cArgs[p].address)]
       /\ cAggs' = [cAggs EXCEPT ![Acc(p)] = <<>>]
       /\ cI' = [cI EXCEPT ![p] = 1]
       /\ cPc' = [cPc EXCEPT ![p] = "loop"]
       /\ UNCHANGED <<sumVars, recVars, gwVars, fmtVars, mainVars, hdVars, fwVars,
                      cArgs, cPending, cResult, cLogs>>

\* One turn of the loop over txs.  It touches the record, the map of the
\* call and, through log.Printf, the standard logger, whose mutex makes the
\* writing of a line one step.
CIterate ==
    \E p \in Procs :
       /\ cPc[p] = "loop"
       /\ cI[p] <= Len(cArgs[p].txs)
       /\ LET st == LoopBody([aggregates |-> cAggs[Acc(p)], logs |-> cLogs],
                             cWallet[p], cArgs[p].txs[cI[p]])
          IN  /\ cAggs' = [cAggs EXCEPT ![Acc(p)] = st.aggregates]
              /\ cLogs' = st.logs
       /\ cI' = [cI EXCEPT ![p] = @ + 1]
       /\ UNCHANGED <<sumVars, recVars, gwVars, fmtVars, mainVars, hdVars, fwVars,
                      cArgs, cPc, cWallet, cPending, cResult>>

\* result := make([]TokenBalance, 0, len(aggregates))
CLeaveLoop ==
    \E p \in Procs :
       /\ cPc[p] = "loop"
       /\ cI[p] > Len(cArgs[p].txs)
       /\ cResult' = [cResult EXCEPT ![p] = <<>>]
       /\ cPending' = [cPending EXCEPT ![p] = DOMAIN cAggs[Acc(p)]]
       /\ cPc' = [cPc EXCEPT ![p] = "range"]
       /\ UNCHANGED <<sumVars, recVars, gwVars, fmtVars, mainVars, hdVars, fwVars,
                      cArgs, cWallet, cI, cAggs, cLogs>>

\* for _, agg := range aggregates { ... }
CRangeAggregates ==
    \E p \in Procs :
       /\ cPc[p] = "range"
       /\ \E key \in cPending[p] \cap DOMAIN cAggs[Acc(p)] :
             /\ cResult' = [cResult EXCEPT ![p] = Visit(@, cAggs[Acc(p)][key])]
             /\ cPending' = [cPending EXCEPT ![p] = @ \ {key}]
       /\ UNCHANGED <<sumVars, recVars, gwVars, fmtVars, mainVars, hdVars, fwVars,
                      cArgs, cPc, cWallet, cI, cAggs, cLogs>>

\* sort.Slice(result, ...); return result
CSortAndReturn ==
    \E p \in Procs :
       /\ cPc[p] = "range"
       /\ cPending[p] \cap DOMAIN cAggs[Acc(p)] = {}
       /\ cResult' = [cResult EXCEPT ![p] = sortSlice(@)]
       /\ cPc' = [cPc EXCEPT ![p] = "done"]
       /\ UNCHANGED <<sumVars, recVars, gwVars, fmtVars, mainVars, hdVars, fwVars,
                      cArgs, cWallet, cI, cAggs, cPending, cLogs>>

ConcNext ==
    \/ CReturnEmpty
    \/ CEnter
    \/ CIterate
    \/ CLeaveLoop
    \/ CRangeAggregates
    \/ CSortAndReturn

ConcSpec == ConcInit /\ [][ConcNext]_vars

----------------------------------------------------------------------------
(* C23 *)

\* The records call p has handled so far.
CHandled(p) == IF cI[p] = 0 THEN <<>> ELSE SubSeq(cArgs[p].txs, 1, cI[p] - 1)

\* Call p took no step.
CStays(p) == cPc'[p] = cPc[p] /\ cI'[p] = cI[p] /\ cPending'[p] = cPending[p]

----------------------------------------------------------------------------
(* C24 *)

\* A reply that is a failure to obtain the history: the transport failed,
\* the HTTP status is not 200, the body does not decode, the result is a
\* text other than the no-transactions text, the result is neither a text
\* nor a list, or the status is "0" and the reply does not say that there
\* are no transactions.
FailureReply(reply) ==
    \/ ~reply.transportOk
    \/ reply.code # 200
    \/ ~reply.decodes
    \/ /\ reply.Result.kind = "string"
       /\ Folded(reply.Result.text) # Folded(NoTransactionsText)
    \/ reply.Result.kind \in {"null", "other"}
    \/ reply.Status = "0" /\ ~SentinelReply(reply)

\* C24: after a failure reply GetWalletTokens returns a nil response and an
\* error; it never returns a response together with an error; and when it
\* returns a nil error the response is there and its Address is the address
\* given, character for character.
C24_FailureGivesError ==
    gwPc = "done" =>
       /\ (gwRequests > 0 /\ FailureReply(gwReply)) =>
             (gwResponse = Nil /\ gwErr # NoError)
       /\ gwErr # NoError => gwResponse = Nil
       /\ gwErr = NoError =>
             (gwResponse # Nil /\ Deref(gwResponse).Address = gwAddress)

\* A call has returned nil and an error after a reply with status "1" and
\* the rate-limit notice as its result.
C24_Witness ==
    /\ gwPc = "done" /\ gwRequests > 0
    /\ gwReply.decodes /\ gwReply.Status = "1"
    /\ gwReply.Result.kind = "string" /\ gwReply.Result.text = RateLimitText
    /\ gwResponse = Nil
    /\ gwErr = "unexpected result text"

----------------------------------------------------------------------------
(* main *)

\* The longest value of ETHERSCAN_API_KEY.
MaxKeyLen == 3

\* The values of the variable: texts of spaces and letters, the empty text
\* among them.
MnKeys == UNION {[1..n -> {" ", "k", "e"}] : n \in 0..MaxKeyLen}

\* The environment: the variable is unset (Nil) or set to a value.
MnEnvs == {Nil} \cup {Ptr(k) : k \in MnKeys}

\* NewWalletTracker with the key tested as it is given.
NewWalletTrackerNoTrim(apiKey) ==
    IF apiKey = <<>>
    THEN [tracker |-> Nil, err |-> "api key must not be empty"]
    ELSE [tracker |-> Ptr([apiKey |-> apiKey]), err |-> NoError]

NewWalletTracker(apiKey) ==
    LET key == TrimSpace(apiKey)
    IN  IF key = <<>>
        THEN [tracker |-> Nil, err |-> "api key must not be empty"]
        ELSE [tracker |-> Ptr([apiKey |-> key]), err |-> NoError]

MainInit ==
    /\ mnEnv \in MnEnvs
    /\ mnPc = "start"
    /\ mnTracker = Nil
    /\ mnTools = {}
    /\ mnServing = FALSE
    /\ SumIdle /\ RecIdle /\ GwIdle /\ FmtIdle /\ ConcIdle /\ HdIdle /\ FwIdle

\* apiKey, ok := os.LookupEnv(...); if !ok || apiKey == "" { log.Fatal(...) }
MnLookupEnv ==
    /\ mnPc = "start"
    /\ mnPc' = IF mnEnv = Nil \/ Deref(mnEnv) = <<>> THEN "exited" ELSE "tracker"
    /\ UNCHANGED <<sumVars, recVars, gwVars, fmtVars, concVars, hdVars, fwVars,
                   mnEnv, mnTracker, mnTools, mnServing>>

\* walletTracker, err := NewWalletTracker(apiKey); if err != nil { log.Fatalf(...) }
MnNewWalletTracker ==
    /\ mnPc = "tracker"
    /\ LET made == NewWalletTracker(Deref(mnEnv))
       IN  /\ mnTracker' = made.tracker
           /\ mnPc' = IF made.err # NoError THEN "exited" ELSE "register"
    /\ UNCHANGED <<sumVars, recVars, gwVars, fmtVars, concVars, hdVars, fwVars,
                   mnEnv, mnTools, mnServing>>

\* server := mcp_golang.NewServer(...); registerWalletTracker(server,
\* walletTracker), which the library may refuse with an error.
MnRegister ==
    /\ mnPc = "register"
    /\ \E ok \in BOOLEAN :
          /\ mnTools' = IF ok THEN mnTools \cup {"wallet_tracker"} ELSE mnTools
          /\ mnPc' = IF ok THEN "serve" ELSE "exited"
    /\ UNCHANGED <<sumVars, recVars, gwVars, fmtVars, concVars, hdVars, fwVars,
                   mnEnv, mnTracker, mnServing>>

\* server.Serve(), which may fail; then select {} keeps main waiting while
\* the server answers requests.
MnServe ==
    /\ mnPc = "serve"
    /\ \E ok \in BOOLEAN :
          /\ mnServing' = ok
          /\ mnPc' = IF ok THEN "running" ELSE "exited"
    /\ UNCHANGED <<sumVars, recVars, gwVars, fmtVars, concVars, hdVars, fwVars,
                   mnEnv, mnTracker, mnTools>>

MainNext ==
    \/ MnLookupEnv
    \/ MnNewWalletTracker
    \/ MnRegister
    \/ MnServe

MainSpec == MainInit /\ [][MainNext]_vars

----------------------------------------------------------------------------
(* C25 *)

\* The variable is unset, empty or white space only.
NoUsableKey == mnEnv = Nil \/ Blank(Deref(mnEnv))

\* C25: the tool is registered and Serve is called only with a tracker
\* whose key holds something other than white space; with the variable
\* unset, empty or white space only, main is past its two tests only as
\* exited, with no tool registered and nothing served; and
\* NewWalletTracker gives an error and no tracker for every empty or
\* white-space-only key.
C25_NoServingWithoutKey ==
    /\ (mnTools # {} \/ mnServing \/ mnPc \in {"register", "serve", "running"}) =>
          /\ ~NoUsableKey
          /\ mnTracker # Nil
          /\ ~Blank(Deref(mnTracker).apiKey)
    /\ (NoUsableKey /\ mnPc \notin {"start", "tracker"}) =>
          (mnPc = "exited" /\ mnTools = {} /\ ~mnServing /\ mnTracker = Nil)
    /\ (NoUsableKey /\ mnPc = "tracker") => Deref(mnEnv) # <<>>
    /\ \A k \in MnKeys :
          Blank(k) => (NewWalletTracker(k).tracker = Nil /\ NewWalletTracker(k).err # NoError)

\* main has exited on a key of two spaces, which NewWalletTracker refused.
C25_Witness ==
    /\ mnPc = "exited"
    /\ mnEnv = Ptr(<<" ", " ">>)
    /\ mnTracker = Nil
    /\ mnTools = {}
    /\ ~mnServing

----------------------------------------------------------------------------
(* formatWalletResponse *)

\* "Wallet Address: "
WalletAddressLabel ==
    <<"W", "a", "l", "l", "e", "t", " ", "A", "d", "d", "r", "e", "s", "s", ":", " ">>

\* "No token balances found."
NoTokenBalancesText ==
    <<"N", "o", " ", "t", "o", "k", "e", "n", " ", "b", "a", "l", "a", "n", "c", "e", "s", " ", "f", "o", "u", "n", "d", ".">>

\* "Tokens:"
TokensLabel == <<"T", "o", "k", "e", "n", "s", ":">>

NewLine == "\n"

\* strings.TrimRight(s, "\n")
RECURSIVE TrimRightNewLines(_)
TrimRightNewLines(s) ==
    IF s # <<>> /\ s[Len(s)] = NewLine
    THEN TrimRightNewLines(SubSeq(s, 1, Len(s) - 1))
    ELSE s

\* The line written for one token, with its newline.
TokenLine(token) ==
    LET name == IF token.Name = <<>> THEN token.Address ELSE token.Name
    IN  IF token.Symbol # <<>>
        THEN <<"-", " ">> \o name \o <<" ", "(">> \o token.Symbol \o <<")", ":", " ">>
             \o token.Balance \o <<NewLine>>
        ELSE <<"-", " ">> \o name \o <<":", " ">> \o token.Balance \o <<NewLine>>

\* What the builder holds after the lines of tokens.
RECURSIVE WriteTokens(_, _)
WriteTokens(builder, tokens) ==
    IF tokens = <<>> THEN builder
    ELSE WriteTokens(builder \o TokenLine(Head(tokens)), Tail(tokens))

\* formatWalletResponse with the listing left out for a nil list only.
formatWalletResponseNilOnly(resp) ==
    IF resp.Tokens.isNil
    THEN WalletAddressLabel \o resp.Address \o <<NewLine>> \o NoTokenBalancesText
    ELSE TrimRightNewLines(
            WriteTokens(WalletAddressLabel \o resp.Address \o <<NewLine>>
                           \o TokensLabel \o <<NewLine>>,
                        resp.Tokens.elems))

\* formatWalletResponse with the builder returned as it is.
formatWalletResponseNoTrim(resp) ==
    IF Len(resp.Tokens.elems) = 0
    THEN WalletAddressLabel \o resp.Address \o <<NewLine>> \o NoTokenBalancesText
    ELSE WriteTokens(WalletAddressLabel \o resp.Address \o <<NewLine>>
                        \o TokensLabel \o <<NewLine>>,
                     resp.Tokens.elems)

formatWalletResponse(resp) ==
    IF Len(resp.Tokens.elems) = 0
    THEN WalletAddressLabel \o resp.Address \o <<NewLine>> \o NoTokenBalancesText
    ELSE TrimRightNewLines(
            WriteTokens(WalletAddressLabel \o resp.Address \o <<NewLine>>
                           \o TokensLabel \o <<NewLine>>,
                        resp.Tokens.elems))

\* The longest token list of a response.
MaxTokens == 2

\* The tokens of a response: with and without name, with and without symbol.
FwTokens ==
    {[Address |-> <<"x">>, Name |-> name, Symbol |-> symbol, Balance |-> balance] :
        name \in {<<>>, <<"n">>}, symbol \in {<<>>, <<"s">>},
        balance \in {<<"1", ".", "5">>, <<"-", "2">>}}

\* The responses: the token list nil, empty or with tokens.
FwResponses ==
    {[Address |-> address, Tokens |-> tokens] :
        address \in {<<>>, <<"0", "x", "a">>},
        tokens \in {NilSlice} \cup
                   {MakeSlice(list) : list \in UNION {[1..n -> FwTokens] : n \in 0..MaxTokens}}}

FwInit ==
    /\ fwPc = "start"
    /\ fwResp \in {Ptr(r) : r \in FwResponses}
    /\ fwText = <<>>
    /\ SumIdle /\ RecIdle /\ GwIdle /\ FmtIdle /\ ConcIdle /\ MainIdle /\ HdIdle

FwReturn ==
    /\ fwPc = "start"
    /\ fwText' = formatWalletResponse(Deref(fwResp))
    /\ fwPc' = "done"
    /\ UNCHANGED <<sumVars, recVars, gwVars, fmtVars, concVars, mainVars, hdVars, fwResp>>

FwNext == FwReturn

FwSpec == FwInit /\ [][FwNext]_vars

----------------------------------------------------------------------------
(* What the properties on formatWalletResponse speak of *)

\* The lines of a text: what stands between its newlines.
RECURSIVE SplitLines(_)
SplitLines(text) ==
    LET breaks == {k \in 1..Len(text) : text[k] = NewLine}
    IN  IF breaks = {} THEN <<text>>
        ELSE LET k == CHOOSE b \in breaks : \A c \in breaks : b <= c
             IN  <<SubSeq(text, 1, k - 1)>> \o SplitLines(SubSeq(text, k + 1, Len(text)))

FwTokenList == Deref(fwResp).Tokens.elems

\* "- name (symbol): balance" or "- name: balance", the address standing
\* in for an empty name.
ExpectedLine(token) ==
    LET shown  == IF token.Name # <<>> THEN token.Name ELSE token.Address
        symbol == IF token.Symbol # <<>>
                  THEN <<" ", "(">> \o token.Symbol \o <<")">>
                  ELSE <<>>
    IN  <<"-", " ">> \o shown \o symbol \o <<":", " ">> \o token.Balance

----------------------------------------------------------------------------
(* C26 *)

\* C26: for a response without tokens, its list nil or empty, the text is
\* "Wallet Address: <address>", a newline and "No token balances found.";
\* the second line of the text is "Tokens:" exactly when the response has
\* at least one token.
C26_NoTokensText ==
    fwPc = "done" =>
       /\ Len(FwTokenList) = 0 =>
             fwText = WalletAddressLabel \o Deref(fwResp).Address \o <<NewLine>>
                         \o NoTokenBalancesText
       /\ Len(SplitLines(fwText)) >= 2
       /\ SplitLines(fwText)[2] = TokensLabel <=> Len(FwTokenList) >= 1

\* The text for a response whose token list is empty and not nil.
C26_Witness ==
    /\ fwPc = "done"
    /\ Deref(fwResp).Tokens = MakeSlice(<<>>)
    /\ Deref(fwResp).Address # <<>>
    /\ SplitLines(fwText) = <<WalletAddressLabel \o Deref(fwResp).Address, NoTokenBalancesText>>

----------------------------------------------------------------------------
(* C27 *)

\* C27: for a response with tokens the lines of the text are the header
\* "Wallet Address: <address>", "Tokens:", and one line for each token in
\* the order of the list, and the text does not end in a newline.
C27_OneLinePerToken ==
    (fwPc = "done" /\ Len(FwTokenList) >= 1) =>
       /\ SplitLines(fwText) =
             <<WalletAddressLabel \o Deref(fwResp).Address, TokensLabel>>
             \o [k \in 1..Len(FwTokenList) |-> ExpectedLine(FwTokenList[k])]
       /\ fwText[Len(fwText)] # NewLine

\* The text for two tokens, the first with a name and a symbol, the second
\* with neither.
C27_Witness ==
    /\ fwPc = "done"
    /\ Len(FwTokenList) = 2
    /\ FwTokenList[1].Name # <<>> /\ FwTokenList[1].Symbol # <<>>
    /\ FwTokenList[2].Name = <<>> /\ FwTokenList[2].Symbol = <<>>
    /\ Len(SplitLines(fwText)) = 4
    /\ SplitLines(fwText)[3] = <<"-", " ", "n", " ", "(", "s", ")", ":", " ">> \o FwTokenList[1].Balance
    /\ SplitLines(fwText)[4] = <<"-", " ", "x", ":", " ">> \o FwTokenList[2].Balance

----------------------------------------------------------------------------
(* C28 *)

\* The steps a call has at most before it returns: two for every record
\* not yet handled, less one for every contract it has made a map entry
\* for on the way, and one for every key the range has yet to visit.
Remaining ==
    IF pc = "start" THEN 2 * Len(txs) + 3
    ELSE IF pc = "loop"
    THEN 2 * (Len(txs) + 1 - i) + Cardinality(DOMAIN aggregates) + 2
    ELSE IF pc = "range" THEN Cardinality(pending) + 1
    ELSE 0

\* The call has a step it can take whatever else goes on: each step asks
\* only for the place of the call and its own locals.
CanStep ==
    \/ pc = "start" /\ (Len(txs) = 0 \/ Len(txs) # 0)
    \/ pc = "loop" /\ (i <= Len(txs) \/ i > Len(txs))
    \/ pc = "range" /\ (pending # {} \/ pending = {})

----------------------------------------------------------------------------
(* The callers of GetWalletTokens: walletHandler and the wallet_tracker tool *)

HdCallers == {"walletHandler", "tool"}

\* ValidatesFirst with no caller testing the address.
ValidatesNever(caller) == FALSE

\* walletHandler puts the address through validateWalletAddress before the
\* call; the function registered as the tool calls at once.
ValidatesFirst(caller) == caller = "walletHandler"

HdInit ==
    /\ hdCaller \in HdCallers
    /\ hdAddress \in GwAddresses
    /\ hdPc = "start"
    /\ hdBranch = ""
    /\ hdAnswer = <<>>
    /\ GwIdle
    /\ SumIdle /\ RecIdle /\ FmtIdle /\ ConcIdle /\ MainIdle /\ FwIdle

\* if err := validateWalletAddress(walletAddress); err != nil {
\*     http.Error(w, ..., http.StatusBadRequest); return }
HdBadRequest ==
    /\ hdPc = "start"
    /\ ValidatesFirst(hdCaller)
    /\ validateWalletAddress(hdAddress) # NoError
    /\ hdBranch' = "invalid address"
    /\ hdAnswer' = [status |-> 400, body |-> "Invalid Ethereum address format"]
    /\ hdPc' = "done"
    /\ UNCHANGED <<sumVars, recVars, gwVars, fmtVars, concVars, mainVars, fwVars,
                   hdCaller, hdAddress>>

\* tracker.GetWalletTokens(ctx, walletAddress) is entered.
HdCall ==
    /\ hdPc = "start"
    /\ ValidatesFirst(hdCaller) => validateWalletAddress(hdAddress) = NoError
    /\ gwPc' = "start"
    /\ gwAddress' = hdAddress
    /\ gwRequests' = 0
    /\ gwReply' = <<>>
    /\ gwResponse' = Nil
    /\ gwErr' = "unset"
    /\ hdPc' = "calling"
    /\ UNCHANGED <<sumVars, recVars, fmtVars, concVars, mainVars, fwVars,
                   hdCaller, hdAddress, hdBranch, hdAnswer>>

\* What walletHandler does with what GetWalletTokens returned: the branch
\* taken and the status and body written.  The encoder may fail to write,
\* and the status the client then sees is the one already sent or 500.
walletHandlerAfterCall(address, response, err) ==
    IF err # NoError /\ err = ErrNoTransactions
    THEN {[branch |-> "no transactions",
           answer |-> [status |-> 200,
                       body |-> [Address |-> address, Tokens |-> MakeSlice(<<>>)]]]}
    ELSE IF err # NoError /\ err = ErrInvalidWalletAddress
    THEN {[branch |-> "invalid address after call",
           answer |-> [status |-> 400, body |-> "Invalid Ethereum address format"]]}
    ELSE IF err # NoError
    THEN {[branch |-> "fetch failed",
           answer |-> [status |-> 500, body |-> "Failed to fetch wallet token data"]]}
    ELSE {[branch |-> "encoded",
           answer |-> [status |-> 200, body |-> Deref(response)]]}
         \cup {[branch |-> "encoding failed",
                 answer |-> [status |-> st, body |-> "Failed to encode response"]] :
                   st \in {200, 500}}

\* What the function registered as the tool returns.
toolAfterCall(response, err) ==
    IF err # NoError
    THEN {[branch |-> "tool error", answer |-> [response |-> Nil, err |-> err]]}
    ELSE {[branch |-> "tool content",
           answer |-> [response |-> Ptr(formatWalletResponse(Deref(response))),
                       err |-> NoError]]}

\* GetWalletTokens has returned and the caller answers.
HdRespond ==
    /\ hdPc = "calling"
    /\ gwPc = "done"
    /\ \E out \in IF hdCaller = "walletHandler"
                   THEN walletHandlerAfterCall(hdAddress, gwResponse, gwErr)
                   ELSE toolAfterCall(gwResponse, gwErr) :
          /\ hdBranch' = out.branch
          /\ hdAnswer' = out.answer
    /\ hdPc' = "done"
    /\ UNCHANGED <<sumVars, recVars, gwVars, fmtVars, concVars, mainVars, fwVars,
                   hdCaller, hdAddress>>

HdNext ==
    \/ HdBadRequest
    \/ HdCall
    \/ GwReject
    \/ GwSend
    \/ GwReturn
    \/ HdRespond

HdSpec == HdInit /\ [][HdNext]_vars

----------------------------------------------------------------------------
(* C29 *)

\* C29: GetWalletTokens does not return ErrNoTransactions, and returns
\* ErrInvalidWalletAddress only for an address validateWalletAddress
\* rejects; walletHandler never answers from its branch for
\* ErrNoTransactions nor from its branch for ErrInvalidWalletAddress after
\* the call.
C29_DeadBranches ==
    /\ gwPc = "done" =>
          /\ gwErr # ErrNoTransactions
          /\ gwErr = ErrInvalidWalletAddress =>
                validateWalletAddress(gwAddress) # NoError
    /\ (hdPc = "done" /\ hdCaller = "walletHandler") =>
          hdBranch \notin {"no transactions", "invalid address after call"}

\* walletHandler has answered 200 with an empty token list after a reply
\* that said there are no transactions.
C29_Witness ==
    /\ hdPc = "done"
    /\ hdCaller = "walletHandler"
    /\ gwRequests > 0 /\ SentinelReply(gwReply)
    /\ hdBranch = "encoded"
    /\ hdAnswer = [status |-> 200,
                   body |-> [Address |-> hdAddress, Tokens |-> MakeSlice(<<>>)]]

----------------------------------------------------------------------------
(* C30 *)

\* The contract addresses of the usable records of the list, as written.
UsableContracts == {txs[k].ContractAddress : k \in {j \in 1..Len(txs) : Usable(txs[j])}}

\* C30: no two entries of the returned list have the same contract
\* address; the map has one aggregate for each contract address of a
\* usable record, addresses that differ in letter case only being
\* different addresses, each with the net flow of the records that carry
\* exactly that address; and every such address with a non-zero balance
\* has its own entry.
C30_OneEntryPerExactAddress ==
    pc = "done" =>
       /\ \A j, k \in 1..Len(result) : j # k => result[j].Address # result[k].Address
       /\ txs # <<>> =>
             /\ DOMAIN aggregates = UsableContracts
             /\ \A c \in UsableContracts :
                   /\ aggregates[c].address = c
                   /\ aggregates[c].balance = SumAdded(txs, c) - SumSubtracted(txs, c)
                   /\ aggregates[c].balance # 0 <=> c \in Listed(result)

\* A call has returned two tokens whose contract addresses differ in
\* letter case only, for records whose from matched the target without
\* regard to case.
C30_Witness ==
    /\ pc = "done"
    /\ \E j, k \in 1..Len(result) :
          /\ result[j].Address # result[k].Address
          /\ ToLower(result[j].Address) = ToLower(result[k].Address)
    /\ \E m \in 1..Len(txs) :
          /\ Usable(txs[m]) /\ Outflow(txs[m])
          /\ txs[m].From # walletAddress

====
